---- MODULE Spec2Model ----
(***************************************************************************)
(* The vehicle-checklist store of api/server.py: one MongoDB collection    *)
(* (db.checklists) and the request handlers that read and write it.  Every *)
(* `await db.checklists...` is one atomic store operation; the handler     *)
(* code between two awaits is one step of that handler, so handlers of     *)
(* concurrent requests interleave at the awaits.                           *)
(***************************************************************************)
EXTENDS Integers, Sequences, FiniteSets, TLC

\* ------------------------------------------------------------------ bounds
MaxClock == 2        \* datetime.utcnow() takes the values 0..MaxClock (half milliseconds)
MaxCalls == 2        \* requests issued in one behaviour

Procs == {"h1", "h2"}            \* concurrently running request handlers

\* ------------------------------------------------------------ Optional[T]
None == << >>
Some(v) == << v >>

\* ------------------------------------------------------------ data model
valid_sections == {"tasks", "parts_to_install", "maintenance", "research_items"}

UpdateFields ==
  {"title", "vehicle_info", "engine_info", "tasks", "parts_to_install",
   "maintenance", "research_items", "photos"}

VehicleInfo(make, model, year) ==
  [make |-> make, model |-> model, year |-> year, vin |-> ""]

EngineInfo(code) == [engineCode |-> code, power |-> ""]

\* ChecklistItem(text=...): the defaults of the model class
ChecklistItem(id, text) ==
  [id |-> id, text |-> text, completed |-> FALSE, completed_at |-> None]

Photo(id, data, ts) ==
  [id |-> id, base64_data |-> data, description |-> "", timestamp |-> ts]

\* VehicleChecklist(**checklist_data.dict()): the defaults of the model class
VehicleChecklist(id, data, now) ==
  [id |-> id, title |-> data.title, vehicle_info |-> data.vehicle_info,
   engine_info |-> data.engine_info, tasks |-> << >>, parts_to_install |-> << >>,
   maintenance |-> << >>, research_items |-> << >>, photos |-> << >>,
   created_at |-> now, updated_at |-> now, is_template |-> data.is_template]

\* ----------------------------------------------------------------- state
VARIABLES
  store,     \* db.checklists: checklist id -> document, for the stored ids
  clock,     \* the value datetime.utcnow() returns
  nextCid,   \* uuid4() for checklists: the next unused checklist id
  nextUid,   \* uuid4() for items and photos: the next unused id
  call,      \* per handler: the request it serves, its position and locals
  resp,      \* per handler: its last finished request and the response to it
             \* (history: with the list a toggle read and the list it wrote)
  ncalls     \* requests issued so far

vars == << store, clock, nextCid, nextUid, call, resp, ncalls >>

Idle == [op |-> "idle"]
NoResp ==
  [req |-> Idle, status |-> 0, detail |-> "", body |-> None, read |-> None, wrote |-> None]
Ok(body) == [status |-> 200, detail |-> "", body |-> body]
HTTPException(status_code, detail) ==
  [status |-> status_code, detail |-> detail, body |-> None]
\* an exception no handler catches: the framework answers 500
Unhandled(what) == [status |-> 500, detail |-> what, body |-> None]

\* ------------------------------------------------------ the document store
find_one(db, id) == IF id \in DOMAIN db THEN Some(db[id]) ELSE None

\* A datetime is stored as a BSON date, which counts whole milliseconds: the
\* driver drops what utcnow() holds below the millisecond.
bson_datetime(t) == 2 * (t \div 2)

bson_item(item) ==
  [item EXCEPT !.completed_at = IF @ = None THEN None ELSE Some(bson_datetime(@[1]))]

bson_photo(photo) == [photo EXCEPT !.timestamp = bson_datetime(@)]

\* the stored form of the value of one field of a checklist document
bson_field(k, v) ==
  IF k \in {"created_at", "updated_at"} THEN bson_datetime(v)
  ELSE IF k \in valid_sections THEN [i \in 1..Len(v) |-> bson_item(v[i])]
  ELSE IF k = "photos" THEN [i \in 1..Len(v) |-> bson_photo(v[i])]
  ELSE v

bson(d) == [k \in DOMAIN d |-> bson_field(k, d[k])]

\* {"$set": set} applied to a document
ApplySet(doc, set) ==
  [k \in DOMAIN doc \cup DOMAIN set |->
     IF k \in DOMAIN set THEN bson_field(k, set[k]) ELSE doc[k]]

\* mutant of ApplyPushSet: the element is put in front of the list
ApplyPushSet_InFront(doc, field, v, set) ==
  ApplySet([doc EXCEPT ![field] = << bson_field(field, << v >>)[1] >> \o @], set)

\* {"$push": {field: v}, "$set": set} applied to a document
ApplyPushSet(doc, field, v, set) ==
  ApplySet([doc EXCEPT ![field] = Append(@, bson_field(field, << v >>)[1])], set)

\* mutant of update_one: upsert, a document that is not there is inserted
update_one_Upsert(db, id, newdoc) ==
  [k \in DOMAIN db \cup {id} |-> IF k = id THEN newdoc ELSE db[k]]

\* update_one({"id": id}, ...): the collection after the write
update_one(db, id, newdoc) ==
  IF id \in DOMAIN db THEN [db EXCEPT ![id] = newdoc] ELSE db

\* mutant of modified_count: a write that moved updated_at alone counts 0
modified_count_IgnoresStamp(db, id, newdoc) ==
  IF id \in DOMAIN db /\ [newdoc EXCEPT !.updated_at = 0] # [db[id] EXCEPT !.updated_at = 0]
  THEN 1 ELSE 0

\* result.modified_count: a matched document the write left as it was counts 0
modified_count(db, id, newdoc) ==
  IF id \in DOMAIN db /\ newdoc # db[id] THEN 1 ELSE 0

insert_one(db, doc) ==
  [k \in DOMAIN db \cup {doc.id} |-> IF k = doc.id THEN bson(doc) ELSE db[k]]

\* mutant of delete_one: the filter matches every document once the id is stored
delete_one_Every(db, id) ==
  IF id \in DOMAIN db THEN [k \in {} |-> db[k]] ELSE db

delete_one(db, id) == [k \in DOMAIN db \ {id} |-> db[k]]

deleted_count(db, id) == IF id \in DOMAIN db THEN 1 ELSE 0

\* ------------------------------------------------------------------ inputs
\* the checklist ids a caller can name: those ever generated, and one that never was
CidInputs == 0..(nextCid - 1)

CreateInputs ==
  { [title |-> "1970 Mustang", vehicle_info |-> VehicleInfo("Ford", "Mustang", "1970"),
     engine_info |-> EngineInfo(""), is_template |-> FALSE] }

CallerId == 901      \* an id a caller writes into a payload

NoFields == [k \in UpdateFields |-> None]

\* a caller-supplied item list: one id twice, and completed without completed_at
CallerItems ==
  << [id |-> CallerId, text |-> "x", completed |-> TRUE, completed_at |-> None],
     [id |-> CallerId, text |-> "y", completed |-> FALSE, completed_at |-> None] >>

CorePayloads ==
  { NoFields,
    [NoFields EXCEPT !.title = Some("renamed")],
    [NoFields EXCEPT !.tasks = Some(CallerItems)] }

\* mutant of ToggleItem: completed_at is stamped and never cleared
ToggleItem_NeverCleared(item, now) ==
  [item EXCEPT !.completed = ~item.completed, !.completed_at = Some(now)]

\* toggle_checklist_item, lines 222-223: one item flipped
ToggleItem(item, now) ==
  [item EXCEPT !.completed = ~item.completed,
               !.completed_at = IF ~item.completed THEN Some(now) ELSE None]

\* update payloads that name each field alone, none, several, and all of them
WidePayloads ==
  LET all == [title |-> Some("renamed"),
              vehicle_info |-> Some(VehicleInfo("Holden", "Torana", "1974")),
              engine_info |-> Some(EngineInfo("L34")),
              tasks |-> Some(CallerItems),
              parts_to_install |-> Some(<< >>),
              maintenance |-> Some(<< [id |-> 902, text |-> "z", completed |-> TRUE,
                                       completed_at |-> Some(1)] >>),
              research_items |-> Some(<< [id |-> 903, text |-> "w", completed |-> FALSE,
                                          completed_at |-> None] >>),
              photos |-> Some(<< Photo(CallerId, "img", 1) >>)]
  IN { NoFields, all,
       [k \in UpdateFields |-> IF k \in {"title", "tasks", "photos"} THEN all[k] ELSE None] }
       \cup { [NoFields EXCEPT ![f] = all[f]] : f \in UpdateFields }

\* ------------------------------------------------------------------- Init
\* The collection outlives the process: a server starts on an empty collection
\* or on one its earlier requests filled.  SeededStore is what this sequence
\* leaves, all at time 0: create_checklist; add_checklist_item on tasks twice and
\* on parts_to_install once; toggle_checklist_item on the second task.
EmptyStore == [c \in {} |-> Idle]

SeededStore ==
  [c \in {1} |->
     [VehicleChecklist(1, [title |-> "1970 Mustang",
                           vehicle_info |-> VehicleInfo("Ford", "Mustang", "1970"),
                           engine_info |-> EngineInfo(""), is_template |-> FALSE], 0)
      EXCEPT !.tasks = << ChecklistItem(1, "Replace timing chain"),
                          ToggleItem(ChecklistItem(2, "Replace timing chain"), 0) >>,
             !.parts_to_install = << ChecklistItem(3, "Replace timing chain") >>]]

Seeds ==
  { [store |-> EmptyStore, nextCid |-> 1, nextUid |-> 1],
    [store |-> SeededStore, nextCid |-> 2, nextUid |-> 4] }

InitFrom(seeds) ==
  /\ \E seed \in seeds :
       /\ store = seed.store
       /\ nextCid = seed.nextCid
       /\ nextUid = seed.nextUid
  /\ clock = 0
  /\ call = [p \in Procs |-> Idle]
  /\ resp = [p \in Procs |-> NoResp]
  /\ ncalls = 0

Init == InitFrom(Seeds)

\* ---------------------------------------------------------------- actions
CanCall(p) == call[p].op = "idle" /\ ncalls < MaxCalls

Reply(req, r, read, wrote) ==
  [req |-> req, status |-> r.status, detail |-> r.detail, body |-> r.body,
   read |-> read, wrote |-> wrote]

\* a request whose handler goes on to a later step
Begin(p, req, locals) ==
  /\ call' = [call EXCEPT ![p] = locals]
  /\ resp' = [resp EXCEPT ![p] = NoResp]
  /\ ncalls' = ncalls + 1

\* a request answered in its first step
Answer(p, req, r) ==
  /\ resp' = [resp EXCEPT ![p] = Reply(req, r, None, None)]
  /\ ncalls' = ncalls + 1
  /\ UNCHANGED call

\* a request answered in a later step
FinishWith(p, r, read, wrote) ==
  /\ call' = [call EXCEPT ![p] = Idle]
  /\ resp' = [resp EXCEPT ![p] = Reply(call[p].req, r, read, wrote)]

Finish(p, r) == FinishWith(p, r, None, None)

\* time passes
Tick ==
  /\ clock < MaxClock
  /\ clock' = clock + 1
  /\ UNCHANGED << store, nextCid, nextUid, call, resp, ncalls >>

\* create_checklist, lines 116-117: the document is built, with a fresh id
CreateChecklist_build(p) ==
  /\ CanCall(p)
  /\ \E checklist_data \in CreateInputs :
       LET req == [op |-> "create_checklist", checklist_data |-> checklist_data] IN
       Begin(p, req, [op |-> req.op, pc |-> "insert", req |-> req,
                      checklist |-> VehicleChecklist(nextCid, checklist_data, clock)])
  /\ nextCid' = nextCid + 1
  /\ UNCHANGED << store, clock, nextUid >>

\* create_checklist, lines 119-123: insert_one is applied
CreateChecklist_insert(p) ==
  /\ call[p].op = "create_checklist"
  /\ store' = insert_one(store, call[p].checklist)
  /\ Finish(p, Ok(Some(call[p].checklist)))
  /\ UNCHANGED << clock, nextCid, nextUid, ncalls >>

\* get_checklist, lines 138-141
GetChecklist(p) ==
  /\ CanCall(p)
  /\ \E checklist_id \in CidInputs :
       LET req == [op |-> "get_checklist", checklist_id |-> checklist_id]
           checklist == find_one(store, checklist_id)
       IN Answer(p, req, IF checklist = None
                         THEN HTTPException(404, "Checklist not found")
                         ELSE Ok(checklist))
  /\ UNCHANGED << store, clock, nextCid, nextUid >>

\* mutant of update_dict: the filter is `if v`, which drops an empty list too
update_dict_Truthy(update_data, now) ==
  [k \in {f \in UpdateFields :
            /\ update_data[f] # None
            /\ ~(f \in valid_sections \cup {"photos"} /\ Len(update_data[f][1]) = 0)}
         \cup {"updated_at"} |->
     IF k = "updated_at" THEN now ELSE update_data[k][1]]

\* mutant of update_dict: created_at is stamped along with updated_at
update_dict_StampsCreated(update_data, now) ==
  [k \in {f \in UpdateFields : update_data[f] # None} \cup {"updated_at", "created_at"} |->
     IF k \in {"updated_at", "created_at"} THEN now ELSE update_data[k][1]]

\* update_data.dict() without the None values, lines 152-153
update_dict(update_data, now) ==
  [k \in {f \in UpdateFields : update_data[f] # None} \cup {"updated_at"} |->
     IF k = "updated_at" THEN now ELSE update_data[k][1]]

\* update_checklist, lines 147-149: the existence check
UpdateChecklist_find(p, payloads) ==
  /\ CanCall(p)
  /\ \E checklist_id \in CidInputs, update_data \in payloads :
       LET req == [op |-> "update_checklist", checklist_id |-> checklist_id,
                   update_data |-> update_data]
       IN IF find_one(store, checklist_id) = None
          THEN Answer(p, req, HTTPException(404, "Checklist not found"))
          ELSE Begin(p, req, [op |-> req.op, pc |-> "build", req |-> req,
                              update_dict |-> << >>])
  /\ UNCHANGED << store, clock, nextCid, nextUid >>

\* update_checklist, lines 152-153: the $set document, stamped with utcnow()
UpdateChecklist_build(p) ==
  /\ call[p].op = "update_checklist" /\ call[p].pc = "build"
  /\ call' = [call EXCEPT ![p].pc = "write",
                          ![p].update_dict = update_dict(call[p].req.update_data, clock)]
  /\ UNCHANGED << store, clock, nextCid, nextUid, resp, ncalls >>

\* update_checklist, lines 155-161: update_one is applied
UpdateChecklist_write(p) ==
  /\ call[p].op = "update_checklist" /\ call[p].pc = "write"
  /\ LET id == call[p].req.checklist_id
         newdoc == IF id \in DOMAIN store
                   THEN ApplySet(store[id], call[p].update_dict) ELSE Idle
     IN /\ store' = update_one(store, id, newdoc)
        /\ IF modified_count(store, id, newdoc) = 0
           THEN Finish(p, HTTPException(400, "Failed to update checklist"))
           ELSE /\ call' = [call EXCEPT ![p].pc = "reread"]
                /\ UNCHANGED resp
  /\ UNCHANGED << clock, nextCid, nextUid, ncalls >>

\* update_checklist, lines 164-165: the document is read again and returned;
\* VehicleChecklist(**None) raises TypeError when it is gone
UpdateChecklist_reread(p) ==
  /\ call[p].op = "update_checklist" /\ call[p].pc = "reread"
  /\ LET updated_checklist == find_one(store, call[p].req.checklist_id) IN
     Finish(p, IF updated_checklist = None
               THEN Unhandled("TypeError")
               ELSE Ok(updated_checklist))
  /\ UNCHANGED << store, clock, nextCid, nextUid, ncalls >>

\* delete_checklist, lines 170-173
DeleteChecklist(p) ==
  /\ CanCall(p)
  /\ \E checklist_id \in CidInputs :
       LET req == [op |-> "delete_checklist", checklist_id |-> checklist_id] IN
       /\ store' = delete_one(store, checklist_id)
       /\ Answer(p, req, IF deleted_count(store, checklist_id) = 0
                         THEN HTTPException(404, "Checklist not found")
                         ELSE Ok(None))
  /\ UNCHANGED << clock, nextCid, nextUid >>

SectionInputs == {"tasks", "parts_to_install", "bogus"}
TextInputs == {"Replace timing chain"}

\* mutant of AddChecklistItem_find: the existence check before the section check
AddChecklistItem_find_ExistenceFirst(p) ==
  /\ CanCall(p)
  /\ \E checklist_id \in CidInputs, section \in SectionInputs, item_text \in TextInputs :
       LET req == [op |-> "add_checklist_item", checklist_id |-> checklist_id,
                   section |-> section, item_text |-> item_text]
       IN IF find_one(store, checklist_id) = None
          THEN Answer(p, req, HTTPException(404, "Checklist not found"))
          ELSE IF section \notin valid_sections
          THEN Answer(p, req, HTTPException(400, "Invalid section"))
          ELSE Begin(p, req, [op |-> req.op, pc |-> "build", req |-> req,
                              new_item |-> None, now |-> 0])
  /\ UNCHANGED << store, clock, nextCid, nextUid >>

\* add_checklist_item, lines 178-185: the section check, then the existence check
AddChecklistItem_find(p) ==
  /\ CanCall(p)
  /\ \E checklist_id \in CidInputs, section \in SectionInputs, item_text \in TextInputs :
       LET req == [op |-> "add_checklist_item", checklist_id |-> checklist_id,
                   section |-> section, item_text |-> item_text]
       IN IF section \notin valid_sections
          THEN Answer(p, req, HTTPException(400, "Invalid section"))
          ELSE IF find_one(store, checklist_id) = None
          THEN Answer(p, req, HTTPException(404, "Checklist not found"))
          ELSE Begin(p, req, [op |-> req.op, pc |-> "build", req |-> req,
                              new_item |-> None, now |-> 0])
  /\ UNCHANGED << store, clock, nextCid, nextUid >>

\* mutant of AddChecklistItem_build: the id is the one generated last, not a new one
AddChecklistItem_build_StaleId(p) ==
  /\ call[p].op = "add_checklist_item" /\ call[p].pc = "build"
  /\ call' = [call EXCEPT
        ![p].pc = "push",
        ![p].new_item = Some(ChecklistItem(nextUid - 1, call[p].req.item_text)),
        ![p].now = clock]
  /\ nextUid' = nextUid + 1
  /\ UNCHANGED << store, clock, nextCid, resp, ncalls >>

\* add_checklist_item, lines 188-195: the new item, and utcnow() for updated_at
AddChecklistItem_build(p) ==
  /\ call[p].op = "add_checklist_item" /\ call[p].pc = "build"
  /\ call' = [call EXCEPT
        ![p].pc = "push",
        ![p].new_item = Some(ChecklistItem(nextUid, call[p].req.item_text)),
        ![p].now = clock]
  /\ nextUid' = nextUid + 1
  /\ UNCHANGED << store, clock, nextCid, resp, ncalls >>

\* mutant of AddChecklistItem_push: modified_count is not looked at
AddChecklistItem_push_Unchecked(p) ==
  /\ call[p].op = "add_checklist_item" /\ call[p].pc = "push"
  /\ LET id == call[p].req.checklist_id
         new_item == call[p].new_item[1]
         newdoc == IF id \in DOMAIN store
                   THEN ApplyPushSet(store[id], call[p].req.section, new_item,
                                     [updated_at |-> call[p].now])
                   ELSE Idle
     IN /\ store' = update_one(store, id, newdoc)
        /\ Finish(p, Ok(Some(new_item)))
  /\ UNCHANGED << clock, nextCid, nextUid, ncalls >>

\* add_checklist_item, lines 191-202: update_one with $push and $set is applied
AddChecklistItem_push(p) ==
  /\ call[p].op = "add_checklist_item" /\ call[p].pc = "push"
  /\ LET id == call[p].req.checklist_id
         new_item == call[p].new_item[1]
         newdoc == IF id \in DOMAIN store
                   THEN ApplyPushSet(store[id], call[p].req.section, new_item,
                                     [updated_at |-> call[p].now])
                   ELSE Idle
     IN /\ store' = update_one(store, id, newdoc)
        /\ Finish(p, IF modified_count(store, id, newdoc) = 0
                     THEN HTTPException(400, "Failed to add item")
                     ELSE Ok(Some(new_item)))
  /\ UNCHANGED << clock, nextCid, nextUid, ncalls >>

\* mutant of ToggleLoop: no id comparison and no break, every item is flipped
ToggleLoop_EveryItem(items, item_id, now, i) ==
  [k \in 1..Len(items) |-> IF k >= i THEN ToggleItem(items[k], now) ELSE items[k]]

\* mutant of ToggleLoop: the loop does not break, every matching item is flipped
ToggleLoop_NoBreak(items, item_id, now, i) ==
  [k \in 1..Len(items) |->
     IF k >= i /\ items[k].id = item_id THEN ToggleItem(items[k], now) ELSE items[k]]

\* toggle_checklist_item, lines 220-225: the loop, from position i on
RECURSIVE ToggleLoop(_, _, _, _)
ToggleLoop(items, item_id, now, i) ==
  IF i > Len(items) THEN items
  ELSE IF items[i].id = item_id
       THEN [items EXCEPT ![i] = ToggleItem(items[i], now)]
       ELSE ToggleLoop(items, item_id, now, i + 1)

item_found(items, item_id) == \E i \in 1..Len(items) : items[i].id = item_id

\* the item ids a caller can name: those of the section, and one that is in no list
ItemIdInputs(checklist_id, section) ==
  IF checklist_id \in DOMAIN store /\ section \in valid_sections
  THEN { store[checklist_id][section][i].id :
           i \in 1..Len(store[checklist_id][section]) } \cup {0}
  ELSE {0}

\* toggle_checklist_item, lines 207-217: section check, load, items of the section
\* (loaded keeps the list as it was read: the loop changes items in place)
ToggleChecklistItem_find(p) ==
  /\ CanCall(p)
  /\ \E checklist_id \in CidInputs, section \in SectionInputs :
     \E item_id \in ItemIdInputs(checklist_id, section) :
       LET req == [op |-> "toggle_checklist_item", checklist_id |-> checklist_id,
                   section |-> section, item_id |-> item_id]
           checklist == find_one(store, checklist_id)
       IN IF section \notin valid_sections
          THEN Answer(p, req, HTTPException(400, "Invalid section"))
          ELSE IF checklist = None
          THEN Answer(p, req, HTTPException(404, "Checklist not found"))
          ELSE Begin(p, req, [op |-> req.op, pc |-> "scan", req |-> req,
                              items |-> checklist[1][section],
                              loaded |-> checklist[1][section], now |-> 0])
  /\ UNCHANGED << store, clock, nextCid, nextUid >>

\* toggle_checklist_item, lines 218-236: the item is flipped in the loaded list
ToggleChecklistItem_scan(p) ==
  /\ call[p].op = "toggle_checklist_item" /\ call[p].pc = "scan"
  /\ IF ~item_found(call[p].items, call[p].req.item_id)
     THEN FinishWith(p, HTTPException(404, "Item not found"),
                     Some(call[p].loaded), None)
     ELSE /\ call' = [call EXCEPT
                 ![p].pc = "write",
                 ![p].items = ToggleLoop(call[p].items, call[p].req.item_id, clock, 1),
                 ![p].now = clock]
          /\ UNCHANGED resp
  /\ UNCHANGED << store, clock, nextCid, nextUid, ncalls >>

\* mutant of ToggleChecklistItem_write: what the stored list holds beyond the
\* loaded items is kept
ToggleChecklistItem_write_KeepsAppended(p) ==
  /\ call[p].op = "toggle_checklist_item" /\ call[p].pc = "write"
  /\ LET id == call[p].req.checklist_id
         stored == IF id \in DOMAIN store THEN store[id][call[p].req.section] ELSE << >>
         set == [k \in {call[p].req.section, "updated_at"} |->
                   IF k = "updated_at" THEN call[p].now
                   ELSE call[p].items \o SubSeq(stored, Len(call[p].items) + 1, Len(stored))]
         newdoc == IF id \in DOMAIN store THEN ApplySet(store[id], set) ELSE Idle
     IN /\ store' = update_one(store, id, newdoc)
        /\ IF modified_count(store, id, newdoc) = 0
           THEN FinishWith(p, HTTPException(400, "Failed to update item"),
                           Some(call[p].loaded), None)
           ELSE FinishWith(p, Ok(None), Some(call[p].loaded),
                           Some(newdoc[call[p].req.section]))
  /\ UNCHANGED << clock, nextCid, nextUid, ncalls >>

\* mutant of ToggleChecklistItem_write: the list is written to tasks, whatever
\* the section
ToggleChecklistItem_write_IntoTasks(p) ==
  /\ call[p].op = "toggle_checklist_item" /\ call[p].pc = "write"
  /\ LET id == call[p].req.checklist_id
         set == [k \in {"tasks", "updated_at"} |->
                   IF k = "updated_at" THEN call[p].now ELSE call[p].items]
         newdoc == IF id \in DOMAIN store THEN ApplySet(store[id], set) ELSE Idle
     IN /\ store' = update_one(store, id, newdoc)
        /\ IF modified_count(store, id, newdoc) = 0
           THEN FinishWith(p, HTTPException(400, "Failed to update item"),
                           Some(call[p].loaded), None)
           ELSE FinishWith(p, Ok(None), Some(call[p].loaded),
                           Some(newdoc[call[p].req.section]))
  /\ UNCHANGED << clock, nextCid, nextUid, ncalls >>

\* toggle_checklist_item, lines 231-244: the whole list is written back
ToggleChecklistItem_write(p) ==
  /\ call[p].op = "toggle_checklist_item" /\ call[p].pc = "write"
  /\ LET id == call[p].req.checklist_id
         set == [k \in {call[p].req.section, "updated_at"} |->
                   IF k = "updated_at" THEN call[p].now ELSE call[p].items]
         newdoc == IF id \in DOMAIN store THEN ApplySet(store[id], set) ELSE Idle
     IN /\ store' = update_one(store, id, newdoc)
        /\ IF modified_count(store, id, newdoc) = 0
           THEN FinishWith(p, HTTPException(400, "Failed to update item"),
                           Some(call[p].loaded), None)
           ELSE FinishWith(p, Ok(None), Some(call[p].loaded),
                           Some(newdoc[call[p].req.section]))
  /\ UNCHANGED << clock, nextCid, nextUid, ncalls >>

\* the request body of add_photo: Photo with a caller-supplied id, or the default
PhotoIdInputs == {None, Some(CallerId)}

\* add_photo, lines 247-252: the body is parsed (Photo's defaults), existence check
AddPhoto_find(p) ==
  /\ CanCall(p)
  /\ \E checklist_id \in CidInputs, pid \in PhotoIdInputs :
       LET photo_data == Photo(IF pid = None THEN nextUid ELSE pid[1], "img", clock)
           req == [op |-> "add_photo", checklist_id |-> checklist_id,
                   photo_data |-> photo_data]
       IN /\ IF find_one(store, checklist_id) = None
             THEN Answer(p, req, HTTPException(404, "Checklist not found"))
             ELSE Begin(p, req, [op |-> req.op, pc |-> "build", req |-> req, now |-> 0])
          /\ nextUid' = IF pid = None THEN nextUid + 1 ELSE nextUid
  /\ UNCHANGED << store, clock, nextCid >>

\* add_photo, line 259: utcnow() for updated_at
AddPhoto_build(p) ==
  /\ call[p].op = "add_photo" /\ call[p].pc = "build"
  /\ call' = [call EXCEPT ![p].pc = "push", ![p].now = clock]
  /\ UNCHANGED << store, clock, nextCid, nextUid, resp, ncalls >>

\* add_photo, lines 255-266: update_one with $push and $set is applied
AddPhoto_push(p) ==
  /\ call[p].op = "add_photo" /\ call[p].pc = "push"
  /\ LET id == call[p].req.checklist_id
         newdoc == IF id \in DOMAIN store
                   THEN ApplyPushSet(store[id], "photos", call[p].req.photo_data,
                                     [updated_at |-> call[p].now])
                   ELSE Idle
     IN /\ store' = update_one(store, id, newdoc)
        /\ Finish(p, IF modified_count(store, id, newdoc) = 0
                     THEN HTTPException(400, "Failed to add photo")
                     ELSE Ok(Some(call[p].req.photo_data)))
  /\ UNCHANGED << clock, nextCid, nextUid, ncalls >>

\* ---------------------------------------------------------- specifications
Next ==
  \/ Tick
  \/ \E p \in Procs :
       \/ CreateChecklist_build(p)
       \/ CreateChecklist_insert(p)
       \/ GetChecklist(p)
       \/ UpdateChecklist_find(p, CorePayloads)
       \/ UpdateChecklist_build(p)
       \/ UpdateChecklist_write(p)
       \/ UpdateChecklist_reread(p)
       \/ DeleteChecklist(p)
       \/ AddChecklistItem_find(p)
       \/ AddChecklistItem_build(p)
       \/ AddChecklistItem_push(p)
       \/ ToggleChecklistItem_find(p)
       \/ ToggleChecklistItem_scan(p)
       \/ ToggleChecklistItem_write(p)
       \/ AddPhoto_find(p)
       \/ AddPhoto_build(p)
       \/ AddPhoto_push(p)

Spec == Init /\ [][Next]_vars

\* add_item and add_photo calls only, on a collection that holds a checklist
NextAdd ==
  \/ Tick
  \/ \E p \in Procs :
       \/ AddChecklistItem_find(p)
       \/ AddChecklistItem_build(p)
       \/ AddChecklistItem_push(p)
       \/ AddPhoto_find(p)
       \/ AddPhoto_build(p)
       \/ AddPhoto_push(p)

\* update calls only, with the wide payloads, on a collection that holds a checklist
NextUpdate ==
  \/ Tick
  \/ \E p \in Procs :
       \/ UpdateChecklist_find(p, WidePayloads)
       \/ UpdateChecklist_build(p)
       \/ UpdateChecklist_write(p)
       \/ UpdateChecklist_reread(p)

SpecUpdate ==
  InitFrom({seed \in Seeds : seed.store # EmptyStore}) /\ [][NextUpdate]_vars

SpecAdd ==
  InitFrom({seed \in Seeds : seed.store # EmptyStore}) /\ [][NextAdd]_vars

\* A collection that holds two checklists, each created at time 0 with one task
\* added.
TwoChecklists ==
  [c \in {1, 2} |->
     [VehicleChecklist(c, [title |-> "1970 Mustang",
                           vehicle_info |-> VehicleInfo("Ford", "Mustang", "1970"),
                           engine_info |-> EngineInfo(""), is_template |-> FALSE], 0)
      EXCEPT !.tasks = << ChecklistItem(c, "Replace timing chain") >>]]

\* an update payload that names the title alone
TitlePayloads == { [NoFields EXCEPT !.title = Some("renamed")] }

\* the operations that write to a stored checklist, on two stored checklists
NextTwo ==
  \/ Tick
  \/ \E p \in Procs :
       \/ UpdateChecklist_find(p, TitlePayloads)
       \/ UpdateChecklist_build(p)
       \/ UpdateChecklist_write(p)
       \/ UpdateChecklist_reread(p)
       \/ DeleteChecklist(p)
       \/ AddChecklistItem_find(p)
       \/ AddChecklistItem_build(p)
       \/ AddChecklistItem_push(p)
       \/ ToggleChecklistItem_find(p)
       \/ ToggleChecklistItem_scan(p)
       \/ ToggleChecklistItem_write(p)
       \/ AddPhoto_find(p)
       \/ AddPhoto_build(p)
       \/ AddPhoto_push(p)

SpecTwo ==
  InitFrom({[store |-> TwoChecklists, nextCid |-> 3, nextUid |-> 3]}) /\ [][NextTwo]_vars

\* ------------------------------------------------------------------ claims
FourLists == {"tasks", "parts_to_install", "maintenance", "research_items"}

Finished(p, op) == resp[p].req.op = op
Succeeded(p, op) == resp[p].req.op = op /\ resp[p].status = 200

\* C1: in every reachable store state every item of the four lists of every
\* checklist has completed_at non-null if and only if completed is true.
C1_CompletedAtIffCompleted ==
  \A c \in DOMAIN store : \A s \in FourLists : \A i \in 1..Len(store[c][s]) :
    (store[c][s][i].completed_at # None) <=> store[c][s][i].completed

\* C2: the stored updated_at of a checklist never decreases from one store
\* state to the next.
C2_UpdatedAtNeverDecreases ==
  [][\A c \in DOMAIN store \cap DOMAIN store' :
       store'[c].updated_at >= store[c].updated_at]_vars

\* C6: every update call ends as success with the re-read document, as
\* NotFound (404) or as the 400 failure, and in no other way.
C6_UpdateOutcomes ==
  \A p \in Procs :
    Finished(p, "update_checklist") =>
      \/ resp[p].status = 200 /\ resp[p].body # None
      \/ resp[p].status = 404
      \/ resp[p].status = 400

AllItems(d) == d.tasks \o d.parts_to_install \o d.maintenance \o d.research_items

IdsDistinct(seq) ==
  \A i, j \in 1..Len(seq) : i # j => seq[i].id # seq[j].id

\* C10: no two checklists share an id, no two items of the four lists of one
\* checklist share an id, and no two photos of one checklist share an id.
C10_IdsUnique ==
  \A c \in DOMAIN store :
    /\ store[c].id = c
    /\ IdsDistinct(AllItems(store[c]))
    /\ IdsDistinct(store[c].photos)

\* Whose step it is, read off the two states of a step.  A handler that answers
\* in its first step stays idle and issues a request (ncalls grows); its
\* response changes, unless the step repeats its last request and answer (then
\* no response changes at all, and the step counts for every idle handler).
Answers(p) ==
  /\ call[p].op = "idle" /\ call'[p].op = "idle"
  /\ ncalls' = ncalls + 1
  /\ resp'[p] # resp[p] \/ resp' = resp

Begins(p) == call[p].op = "idle" /\ call'[p].op # "idle"
Continues(p) == call[p].op # "idle" /\ call'[p] # call[p]
Ends(p) == call[p].op # "idle" /\ call'[p].op = "idle"

\* a step of a handler serving one of the operations ops
StepOf(p, ops) ==
  \/ Answers(p) /\ resp'[p].req.op \in ops
  \/ Begins(p) /\ call'[p].op \in ops
  \/ Continues(p) /\ call[p].op \in ops

\* the step wrote nothing but the four lists and updated_at of stored checklists
WritesOnlyListsAndStamp ==
  /\ DOMAIN store' = DOMAIN store
  /\ \A c \in DOMAIN store :
       /\ DOMAIN store'[c] = DOMAIN store[c]
       /\ \A k \in DOMAIN store[c] :
            store'[c][k] # store[c][k] => k \in FourLists \cup {"updated_at"}

ItemOps == {"add_checklist_item", "toggle_checklist_item"}

\* C9: add_item and toggle_item with a section outside the four names fail with
\* InvalidArgument (400) whether or not the checklist exists and leave the store
\* unchanged; a call that goes on has one of the four names, and no step of the
\* two operations writes a field other than the four lists and updated_at.
C9_InvalidSectionRejected ==
  [][\A p \in Procs :
       /\ (Begins(p) /\ call'[p].op \in ItemOps) =>
            call'[p].req.section \in FourLists
       /\ (Answers(p) /\ resp'[p].req.op \in ItemOps
             /\ resp'[p].req.section \notin FourLists) =>
            /\ resp'[p].status = 400
            /\ resp'[p].detail = "Invalid section"
            /\ store' = store
       /\ StepOf(p, ItemOps) => WritesOnlyListsAndStamp]_vars

\* C9 witness: invalid-section calls were rejected both for a stored checklist
\* and for an id that is not stored
C9_Witness ==
  \E p, q \in Procs :
    /\ resp[p].req.op = "add_checklist_item" /\ resp[q].req.op = "toggle_checklist_item"
    /\ resp[p].req.section \notin FourLists /\ resp[q].req.section \notin FourLists
    /\ resp[p].status = 400 /\ resp[q].status = 400
    /\ resp[p].req.checklist_id \in DOMAIN store
    /\ resp[q].req.checklist_id \notin DOMAIN store

\* the position of the first item of seq with the given id (0: none)
FirstIndex(seq, id) ==
  IF \E i \in 1..Len(seq) : seq[i].id = id
  THEN CHOOSE i \in 1..Len(seq) :
         seq[i].id = id /\ \A j \in 1..(i - 1) : seq[j].id # id
  ELSE 0

\* p and q each finished a successful toggle_item, on two different items of
\* the same section of the same checklist, and both had loaded the same list:
\* neither loaded after the other wrote
RacingToggles(p, q) ==
  /\ p # q
  /\ Succeeded(p, "toggle_checklist_item") /\ Succeeded(q, "toggle_checklist_item")
  /\ resp[p].req.checklist_id = resp[q].req.checklist_id
  /\ resp[p].req.section = resp[q].req.section
  /\ resp[p].req.item_id # resp[q].req.item_id
  /\ resp[p].read = resp[q].read

Flipped(was, is) == is.completed # was.completed

\* C3: two concurrent toggle_item calls on different items of one section, both
\* loading before either writes, both succeed, and the stored list then shows
\* exactly one of the two items flipped: the other update is lost.
C3_ConcurrentTogglesLoseOne ==
  \A p, q \in Procs :
    RacingToggles(p, q) =>
      LET c == resp[p].req.checklist_id
          s == resp[p].req.section
          L == resp[p].read[1]
          i == FirstIndex(L, resp[p].req.item_id)
          j == FirstIndex(L, resp[q].req.item_id)
      IN /\ c \in DOMAIN store
         /\ store[c][s] \in {resp[p].wrote[1], resp[q].wrote[1]}
         /\ Len(store[c][s]) = Len(L)
         /\ Flipped(L[i], store[c][s][i]) # Flipped(L[j], store[c][s][j])
         /\ \A k \in 1..Len(L) : k \notin {i, j} => store[c][s][k] = L[k]

\* C3 witness: the race happened, and the first handler's flip is the lost one
C3_Witness ==
  \E p, q \in Procs :
    /\ RacingToggles(p, q)
    /\ LET L == resp[p].read[1]
           now == store[resp[p].req.checklist_id][resp[p].req.section]
           i == FirstIndex(L, resp[p].req.item_id)
           j == FirstIndex(L, resp[q].req.item_id)
       IN ~Flipped(L[i], now[i]) /\ Flipped(L[j], now[j])

AddOps == {"add_checklist_item", "add_photo"}

\* the list an add_item or add_photo request appends to
TargetList(req) == IF req.op = "add_photo" THEN "photos" ELSE req.section

\* the element a successful add_item or add_photo call returned, as the store
\* holds it (a photo's timestamp in whole milliseconds)
StoredElement(r) ==
  IF r.req.op = "add_photo" THEN bson_photo(r.body[1]) ELSE r.body[1]

Occurrences(seq, x) == Cardinality({k \in 1..Len(seq) : seq[k] = x})

\* p's step ended an add_item or add_photo call with success
AppendDone(p) == Ends(p) /\ resp'[p].req.op \in AddOps /\ resp'[p].status = 200

EightFields ==
  {"title", "vehicle_info", "engine_info", "tasks", "parts_to_install",
   "maintenance", "research_items", "photos"}

\* what update(id, payload) is to leave of document d: the payload's value (as
\* the store holds it, times in whole milliseconds) for each field the payload
\* names, the time the handler read for updated_at, d's value for the rest
Updated(d, payload, now) ==
  [k \in DOMAIN d |->
     IF k \in EightFields /\ payload[k] # None THEN bson_field(k, payload[k][1])
     ELSE IF k = "updated_at" THEN bson_datetime(now)
     ELSE d[k]]

\* p's step applies the write of an update call
UpdateWrites(p) ==
  call[p].op = "update_checklist" /\ call[p].pc = "write" /\ call'[p] # call[p]

\* the write did not fail: the handler goes on to return the document
WriteAccepted(p) == call'[p].op = "update_checklist" /\ call'[p].pc = "reread"

\* C5 as stated: a successful update replaces exactly the fields its payload
\* names and refreshes updated_at, and an update of a stored checklist whose
\* payload names no field still succeeds and refreshes updated_at.
C5_UpdateAlwaysRefreshes ==
  [][\A p \in Procs :
       (UpdateWrites(p) /\ call[p].req.checklist_id \in DOMAIN store) =>
         LET c == call[p].req.checklist_id
             payload == call[p].req.update_data
             now == call[p].update_dict.updated_at
         IN /\ WriteAccepted(p) => store'[c] = Updated(store[c], payload, now)
            /\ payload = NoFields =>
                 WriteAccepted(p) /\ store'[c] = Updated(store[c], payload, now)]_vars

\* What the code does in place of C5: a successful update replaces exactly the
\* fields its payload names, leaves the others as they were and sets updated_at
\* to the time it read; the write of an update of a stored checklist succeeds
\* exactly when it changes the document, so an update whose payload names no
\* field fails with 400, changing nothing, when the time it read is, in whole
\* milliseconds, the stored updated_at.
UpdateReplacesNamedFields ==
  [][\A p \in Procs :
       (UpdateWrites(p) /\ call[p].req.checklist_id \in DOMAIN store) =>
         LET c == call[p].req.checklist_id
             payload == call[p].req.update_data
             now == call[p].update_dict.updated_at
             new == Updated(store[c], payload, now)
         IN IF new # store[c]
            THEN WriteAccepted(p) /\ store' = [store EXCEPT ![c] = new]
            ELSE /\ Ends(p) /\ resp'[p].status = 400
                 /\ store' = store
                 /\ payload = NoFields => bson_datetime(now) = store[c].updated_at]_vars

\* reached: one update with no field succeeded and refreshed updated_at, another
\* read the same millisecond and failed with 400
UpdateNoFieldsBothWays ==
  \E p, q \in Procs :
    /\ Succeeded(p, "update_checklist") /\ resp[p].req.update_data = NoFields
    /\ resp[p].body[1].updated_at > SeededStore[1].updated_at
    /\ store[resp[p].req.checklist_id] = resp[p].body[1]
    /\ Finished(q, "update_checklist") /\ resp[q].req.update_data = NoFields
    /\ resp[q].status = 400
    /\ resp[q].req.checklist_id = resp[p].req.checklist_id

\* p and then q each finished a successful toggle_item of the same item, q
\* loaded the very list p wrote and the store holds the list q wrote: nothing
\* came between the two calls or after them
ToggledTwice(p, q) ==
  /\ p # q
  /\ Succeeded(p, "toggle_checklist_item") /\ Succeeded(q, "toggle_checklist_item")
  /\ resp[p].req = resp[q].req
  /\ resp[q].read = resp[p].wrote
  /\ resp[q].req.checklist_id \in DOMAIN store
  /\ store[resp[q].req.checklist_id][resp[q].req.section] = resp[q].wrote[1]

\* the item the first toggle found, and what the second toggle left of it
ItemBefore(p) == resp[p].read[1][FirstIndex(resp[p].read[1], resp[p].req.item_id)]
ItemAfter(p, q) ==
  store[resp[q].req.checklist_id][resp[q].req.section]
       [FirstIndex(resp[p].read[1], resp[p].req.item_id)]

Consistent(item) == (item.completed_at # None) <=> item.completed

\* C7 as stated: toggle_item applied twice to an item, with nothing in between,
\* restores the item's original completed and completed_at, whether it started
\* uncompleted with a null completed_at or completed with a non-null one.
C7_ToggleTwiceRestores ==
  \A p, q \in Procs :
    (ToggledTwice(p, q) /\ Consistent(ItemBefore(p))) =>
      /\ ItemAfter(p, q).completed = ItemBefore(p).completed
      /\ ItemAfter(p, q).completed_at = ItemBefore(p).completed_at

\* C7 amended: toggle_item applied twice to an item, with nothing in between,
\* restores the item's original completed; completed_at is restored (null) when
\* the item started uncompleted, and when it started completed it is non-null
\* again, the time of the second toggle and not the original time.
C7_ToggleTwiceRestoresCompleted ==
  \A p, q \in Procs :
    (ToggledTwice(p, q) /\ Consistent(ItemBefore(p))) =>
      /\ ItemAfter(p, q).id = ItemBefore(p).id
      /\ ItemAfter(p, q).text = ItemBefore(p).text
      /\ ItemAfter(p, q).completed = ItemBefore(p).completed
      /\ IF ItemBefore(p).completed
         THEN /\ ItemAfter(p, q).completed_at # None
              /\ \E t \in 0..clock : ItemAfter(p, q).completed_at = Some(bson_datetime(t))
         ELSE ItemAfter(p, q).completed_at = None

\* C7 witness: an item that started completed was toggled twice and carries a
\* later completed_at than it started with
C7_Witness ==
  \E p, q \in Procs :
    /\ ToggledTwice(p, q)
    /\ ItemBefore(p).completed /\ ItemBefore(p).completed_at # None
    /\ ItemAfter(p, q).completed
    /\ ItemAfter(p, q).completed_at[1] > ItemBefore(p).completed_at[1]

\* the list with the item at position i flipped at time now and nothing else changed
FlippedAt(items, i, now) ==
  [k \in 1..Len(items) |->
     IF k = i
     THEN [id |-> items[k].id, text |-> items[k].text,
           completed |-> ~items[k].completed,
           completed_at |-> IF items[k].completed THEN None
                            ELSE Some(bson_datetime(now))]
     ELSE items[k]]

\* p is about to write back a list it loaded and the stored list is still the
\* one it loaded: the toggle runs in isolation
ToggleWritesAlone(p) ==
  /\ call[p].op = "toggle_checklist_item" /\ call[p].pc = "write"
  /\ call[p].req.checklist_id \in DOMAIN store
  /\ store[call[p].req.checklist_id][call[p].req.section] = call[p].loaded

\* C8: a toggle_item run in isolation succeeds and changes exactly one item, the
\* first of the named list whose id is item_id: completed is negated and
\* completed_at is the current time when it becomes completed, null when it
\* becomes uncompleted; every other item (later items of the same id included),
\* the order and length of the list, the other sections, photos, title,
\* vehicle_info and engine_info are unchanged; when no item of the list has the
\* id the call fails with 404 and the store is unchanged.
C8_ToggleChangesFirstMatch ==
  [][\A p \in Procs :
       /\ (ToggleWritesAlone(p) /\ Continues(p)) =>
            LET c == call[p].req.checklist_id
                s == call[p].req.section
                i == FirstIndex(store[c][s], call[p].req.item_id)
            IN /\ i > 0
               /\ Ends(p) /\ resp'[p].status = 200
               /\ store' = [store EXCEPT
                    ![c] = [store[c] EXCEPT
                       ![s] = FlippedAt(store[c][s], i, call[p].now),
                       !.updated_at = bson_datetime(call[p].now)]]
       /\ ( /\ call[p].op = "toggle_checklist_item" /\ call[p].pc = "scan"
            /\ FirstIndex(call[p].loaded, call[p].req.item_id) = 0
            /\ Continues(p) ) =>
            /\ Ends(p) /\ resp'[p].status = 404
            /\ resp'[p].detail = "Item not found"
            /\ store' = store]_vars

\* C8 witness: a toggle in isolation succeeded on a list that holds the id twice
\* and the store holds the list with the first of the two flipped only
C8_Witness ==
  \E p \in Procs :
    /\ Succeeded(p, "toggle_checklist_item")
    /\ resp[p].req.checklist_id \in DOMAIN store
    /\ LET was == resp[p].read[1]
           is == store[resp[p].req.checklist_id][resp[p].req.section]
           i == FirstIndex(was, resp[p].req.item_id)
       IN /\ \E j \in (i + 1)..Len(was) : was[j].id = resp[p].req.item_id
          /\ is = resp[p].wrote[1]
          /\ is = FlippedAt(was, i, 0) \/ is = FlippedAt(was, i, clock)

\* p finished a successful create, q then a successful get of the id create
\* returned, and no other request was issued
CreatedThenGot(p, q) ==
  /\ Succeeded(p, "create_checklist") /\ Succeeded(q, "get_checklist")
  /\ resp[q].req.checklist_id = resp[p].body[1].id
  /\ ncalls = 2

\* C11: for every successful create, a get on the returned id with no mutation
\* of that checklist in between returns a document equal in every field to the
\* document create returned.
C11_GetReturnsWhatCreateReturned ==
  \A p, q \in Procs :
    CreatedThenGot(p, q) => resp[q].body[1] = resp[p].body[1]

\* what does hold of create followed by get: the document get returns is the
\* stored form, with whole milliseconds, of the document create returned
GetReturnsStoredForm ==
  \A p, q \in Procs :
    CreatedThenGot(p, q) => resp[q].body[1] = bson(resp[p].body[1])

\* reached: a get after a create returned another created_at than create did
GotAnotherCreatedAt ==
  \E p, q \in Procs :
    /\ CreatedThenGot(p, q)
    /\ resp[q].body[1].created_at # resp[p].body[1].created_at

\* Checklist ids are generated in order and a document leaves the collection by
\* delete_one alone, so delete(c) has returned success exactly when c was
\* generated, is not held by a create still to insert it, and is not stored.
Deleted(c) ==
  /\ c \in 1..(nextCid - 1)
  /\ c \notin DOMAIN store
  /\ \A p \in Procs : call[p].op = "create_checklist" => call[p].checklist.id # c

Writers == {"update_checklist", "add_checklist_item", "toggle_checklist_item", "add_photo"}

\* the step is handler p answering a get (a delete) at once
Gets(p) == Answers(p) /\ resp'[p].req.op = "get_checklist" /\ GetChecklist(p)
Deletes(p) == Answers(p) /\ resp'[p].req.op = "delete_checklist" /\ DeleteChecklist(p)

\* C12: once delete(id) has returned success, every later get(id) and every
\* later delete(id) fails with 404 and the document stays absent in all later
\* states: no update, add_item, toggle_item or add_photo that passed its
\* existence check before the delete re-creates it with its write.
C12_DeletedStaysDeleted ==
  [][\A c \in CidInputs :
       /\ \A p \in Procs :
            (resp'[p].req = [op |-> "delete_checklist", checklist_id |-> c]
               /\ resp'[p].status = 200 /\ Deletes(p)) =>
              (c \in DOMAIN store /\ Deleted(c)')
       /\ Deleted(c) =>
            /\ Deleted(c)'
            /\ \A p \in Procs :
                 (resp'[p].req \in {[op |-> "get_checklist", checklist_id |-> c],
                                    [op |-> "delete_checklist", checklist_id |-> c]}
                    /\ (Gets(p) \/ Deletes(p))) =>
                   (resp'[p].status = 404 /\ resp'[p].detail = "Checklist not found")]_vars

WriteFailures ==
  {"Failed to update checklist", "Failed to add item", "Failed to update item",
   "Failed to add photo"}

\* C12 witness: delete returned success while a writer that had passed its
\* existence check was still to write; the writer's write then found nothing
\* and the document is still absent
C12_Witness ==
  \E p, q \in Procs :
    /\ Succeeded(p, "delete_checklist")
    /\ resp[q].req.op \in Writers
    /\ resp[q].req.checklist_id = resp[p].req.checklist_id
    /\ resp[q].status = 400 /\ resp[q].detail \in WriteFailures
    /\ Deleted(resp[p].req.checklist_id)

\* an add_photo request, or an add_item request with one of the four sections
ValidAdd(req) ==
  \/ req.op = "add_photo"
  \/ req.op = "add_checklist_item" /\ req.section \in FourLists

\* C13 as stated: every add_photo call, and every add_item call with a valid
\* section, ends in success or in 404, under any interleaving.
C13_AddOutcomes ==
  \A p \in Procs :
    (ValidAdd(resp[p].req) /\ resp[p].status # 0) => resp[p].status \in {200, 404}

\* C13 amended: every add_photo call, and every add_item call with a valid
\* section, ends in one of three ways: 404 at its existence check, the checklist
\* not stored and the store unchanged; success, its element appended to the list
\* of the stored checklist; or, when the checklist was deleted between its
\* existence check and its append, 400 "Failed to add item" / "Failed to add
\* photo", the store unchanged.
C13_AddOutcomesWithWriteFailure ==
  [][\A p \in Procs :
       /\ (Answers(p) /\ resp'[p] # resp[p] /\ ValidAdd(resp'[p].req)) =>
            /\ resp'[p].status = 404 /\ resp'[p].detail = "Checklist not found"
            /\ resp'[p].req.checklist_id \notin DOMAIN store
            /\ store' = store
       /\ (Begins(p) /\ call'[p].op \in AddOps) =>
            /\ ValidAdd(call'[p].req)
            /\ call'[p].req.checklist_id \in DOMAIN store
            /\ store' = store
       /\ (Ends(p) /\ call[p].op \in AddOps) =>
            LET c == call[p].req.checklist_id
                f == TargetList(call[p].req)
            IN IF c \in DOMAIN store
               THEN /\ resp'[p].status = 200
                    /\ DOMAIN store' = DOMAIN store
                    /\ store'[c][f] = Append(store[c][f], StoredElement(resp'[p]))
               ELSE /\ resp'[p].status = 400
                    /\ resp'[p].detail =
                         IF f = "photos" THEN "Failed to add photo" ELSE "Failed to add item"
                    /\ store' = store]_vars

\* C13 witness: a delete succeeded between the existence check and the append of
\* an add_item or add_photo call, which ended with the 400 write failure
C13_Witness ==
  \E p, q \in Procs :
    /\ Succeeded(q, "delete_checklist")
    /\ ValidAdd(resp[p].req)
    /\ resp[p].req.checklist_id = resp[q].req.checklist_id
    /\ resp[p].status = 400
    /\ resp[p].detail \in {"Failed to add item", "Failed to add photo"}

\* the ids of the items of the four lists of every stored checklist
ItemIdsInUse ==
  UNION { { AllItems(store[c])[i].id : i \in 1..Len(AllItems(store[c])) } :
          c \in DOMAIN store }

\* C14: the append of an add_item(id, section, text) on a stored checklist makes
\* the named list its previous contents followed by one new item with the given
\* text, completed false, completed_at null and an id no existing item has; the
\* call returns that item with success, updated_at becomes the time the call
\* read, and the other sections, photos, title, vehicle_info, engine_info and
\* every other field and checklist are unchanged.
C14_AddItemAppendsNewItem ==
  [][\A p \in Procs :
       (Ends(p) /\ call[p].op = "add_checklist_item"
                /\ call[p].req.checklist_id \in DOMAIN store) =>
         LET c == call[p].req.checklist_id
             s == call[p].req.section
             item == [id |-> call[p].new_item[1].id, text |-> call[p].req.item_text,
                      completed |-> FALSE, completed_at |-> None]
         IN /\ s \in FourLists
            /\ item.id \notin ItemIdsInUse
            /\ resp'[p].status = 200 /\ resp'[p].body = Some(item)
            /\ store' = [store EXCEPT
                 ![c] = [store[c] EXCEPT
                    ![s] = Append(store[c][s], item),
                    !.updated_at = bson_datetime(call[p].now)]]]_vars

\* C14 witness: an add_item succeeded on a list that held items, the returned
\* item is the last of the stored list, and updated_at moved
C14_Witness ==
  \E p \in Procs :
    /\ Succeeded(p, "add_checklist_item")
    /\ resp[p].req.checklist_id \in DOMAIN store
    /\ LET d == store[resp[p].req.checklist_id]
           L == d[resp[p].req.section]
       IN /\ Len(L) >= 2
          /\ L[Len(L)] = resp[p].body[1]
          /\ L[Len(L)].text = resp[p].req.item_text
          /\ d.updated_at > d.created_at

\* C15: the id, created_at and is_template of a stored checklist never change:
\* every step of every call, successful or failed and under any interleaving,
\* leaves these three fields of every checklist that stays stored as they were,
\* and a checklist is stored under its own id.
C15_IdentityFieldsNeverChange ==
  [][\A c \in DOMAIN store :
       /\ store[c].id = c
       /\ c \in DOMAIN store' =>
            /\ store'[c].id = store[c].id
            /\ store'[c].created_at = store[c].created_at
            /\ store'[c].is_template = store[c].is_template]_vars

\* C15 witness: an update and a toggle_item both succeeded on one checklist,
\* whose updated_at moved and whose title changed
C15_Witness ==
  \E p, q \in Procs :
    /\ Succeeded(p, "update_checklist") /\ Succeeded(q, "toggle_checklist_item")
    /\ resp[p].req.checklist_id = resp[q].req.checklist_id
    /\ resp[p].req.checklist_id \in DOMAIN store
    /\ LET d == store[resp[p].req.checklist_id]
       IN /\ d.updated_at > d.created_at
          /\ d.title = "renamed"
          /\ d.id = resp[p].req.checklist_id /\ ~d.is_template

\* the step answers a request of handler p, at once or after earlier steps
Returns(p) == Ends(p) \/ (Answers(p) /\ resp'[p] # resp[p])

\* C16: a call that returns a failure (404, 400 for an invalid section, 400 for
\* a write that changed nothing) has made no change to the store: the step that
\* returns the failure leaves the store as it was, and every step that changes
\* the store either returns success or is the accepted write of an update, for
\* create, update, delete, add_item, toggle_item and add_photo under any
\* interleaving.
C16_FailedCallsChangeNothing ==
  [][/\ \A p \in Procs :
          (Returns(p) /\ resp'[p].status \in {400, 404}) => store' = store
     /\ store' # store =>
          \E p \in Procs :
            \/ Returns(p) /\ resp'[p].status = 200
            \/ UpdateWrites(p) /\ WriteAccepted(p)]_vars

\* C16 witness: a toggle_item failed with 404 for an unknown item, an update
\* failed with the 400 write failure, and the store is as it was at the start
C16_Witness ==
  \E p, q \in Procs :
    /\ Finished(p, "toggle_checklist_item")
    /\ resp[p].status = 404 /\ resp[p].detail = "Item not found"
    /\ Finished(q, "update_checklist")
    /\ resp[q].status = 400 /\ resp[q].detail = "Failed to update checklist"
    /\ store = SeededStore

IdsOf(seq) == { seq[k].id : k \in 1..Len(seq) }

\* C17: toggle_item is not isolated against other writers of its section: its
\* write puts the list it loaded, with its one flip, in place of the stored
\* list, so every item appended to the stored list since the load is removed by
\* the write; an add_item that returned success in between is then absent from
\* the stored list although no update or delete was issued.
C17_ToggleWriteRemovesAppended ==
  [][\A p \in Procs :
       (call[p].op = "toggle_checklist_item" /\ call[p].pc = "write" /\ Ends(p)
          /\ call[p].req.checklist_id \in DOMAIN store) =>
         LET c == call[p].req.checklist_id
             s == call[p].req.section
         IN /\ c \in DOMAIN store'
            /\ Len(store'[c][s]) = Len(call[p].loaded)
            /\ IdsOf(store'[c][s]) = IdsOf(call[p].loaded)
            /\ \A k \in 1..Len(store[c][s]) :
                 store[c][s][k].id \notin IdsOf(call[p].loaded) =>
                   /\ resp'[p].status = 200
                   /\ store[c][s][k].id \notin IdsOf(store'[c][s])]_vars

\* C17 witness: an add_item and a toggle_item on one section both returned
\* success, the toggle had loaded the list before the item was appended and
\* wrote after, and the added item is not in the stored list
C17_Witness ==
  \E p, q \in Procs :
    /\ ncalls = 2
    /\ Succeeded(p, "toggle_checklist_item") /\ Succeeded(q, "add_checklist_item")
    /\ resp[p].req.checklist_id = resp[q].req.checklist_id
    /\ resp[p].req.section = resp[q].req.section
    /\ resp[p].req.checklist_id \in DOMAIN store
    /\ LET L == store[resp[p].req.checklist_id][resp[p].req.section]
       IN /\ L = resp[p].wrote[1]
          /\ resp[q].body[1].id \notin IdsOf(resp[p].read[1])
          /\ resp[q].body[1].id \notin IdsOf(L)

\* p and q each finished a successful toggle_item, on items of two different
\* sections of one checklist, and no other request was issued
TogglesInTwoSections(p, q) ==
  /\ p # q
  /\ Succeeded(p, "toggle_checklist_item") /\ Succeeded(q, "toggle_checklist_item")
  /\ resp[p].req.checklist_id = resp[q].req.checklist_id
  /\ resp[p].req.section # resp[q].req.section
  /\ ncalls = 2

\* the toggle p finished shows in the store: its section holds the list it
\* loaded with the item it named flipped and every other item as it was
FlipKept(p) ==
  LET c == resp[p].req.checklist_id
      L == resp[p].read[1]
      i == FirstIndex(L, resp[p].req.item_id)
  IN /\ c \in DOMAIN store
     /\ Len(store[c][resp[p].req.section]) = Len(L)
     /\ Flipped(L[i], store[c][resp[p].req.section][i])
     /\ \A k \in 1..Len(L) : k # i => store[c][resp[p].req.section][k] = L[k]

\* C18: two toggle_item calls on items of two different sections of one
\* checklist never lose a flip: in every interleaving in which both return
\* success, both items are flipped in the final state, each call having written
\* its own section's list only.
C18_TogglesInTwoSectionsBothKept ==
  \A p, q \in Procs :
    TogglesInTwoSections(p, q) => (FlipKept(p) /\ FlipKept(q))

\* C18 witness: toggles of a task and of a part both succeeded and the store
\* shows both flips
C18_Witness ==
  \E p, q \in Procs :
    /\ TogglesInTwoSections(p, q)
    /\ resp[p].req.section = "tasks" /\ resp[q].req.section = "parts_to_install"
    /\ LET d == store[resp[p].req.checklist_id]
       IN /\ \E i \in 1..Len(d.tasks) :
               d.tasks[i].id = resp[p].req.item_id /\ d.tasks[i] # resp[p].read[1][i]
          /\ \E j \in 1..Len(d.parts_to_install) :
               /\ d.parts_to_install[j].id = resp[q].req.item_id
               /\ d.parts_to_install[j].completed

\* what a successful call of each writing operation leaves in the store
TookEffect(p) ==
  LET r == resp[p]
      c == r.req.checklist_id
  IN IF r.req.op = "delete_checklist" THEN c \notin DOMAIN store
     ELSE /\ c \in DOMAIN store
          /\ CASE r.req.op = "toggle_checklist_item" -> FlipKept(p)
               [] r.req.op = "add_checklist_item" ->
                    Occurrences(store[c][r.req.section], r.body[1]) = 1
               [] r.req.op = "add_photo" ->
                    Occurrences(store[c].photos, bson_photo(r.body[1])) >= 1
               [] r.req.op = "update_checklist" ->
                    \A k \in EightFields :
                      r.req.update_data[k] # None =>
                        store[c][k] = bson_field(k, r.req.update_data[k][1])

\* p and q each finished a successful writing call, on two different
\* checklists, and no other request was issued
WroteTwoChecklists(p, q) ==
  /\ p # q /\ ncalls = 2
  /\ resp[p].req.op \in Writers \cup {"delete_checklist"} /\ resp[p].status = 200
  /\ resp[q].req.op \in Writers \cup {"delete_checklist"} /\ resp[q].status = 200
  /\ resp[p].req.checklist_id # resp[q].req.checklist_id

\* C19: lost updates are bounded to one document: a step that changes or
\* removes a stored checklist B is a step of a call addressed to B, so every
\* update, delete, add_item, toggle_item and add_photo call addressed to A
\* leaves every other checklist unchanged in every field; and two successful
\* calls on two different checklists both take effect, in every interleaving.
C19_OtherChecklistsUntouched ==
  [][/\ store' # store =>
          /\ \A B \in DOMAIN store :
               (B \notin DOMAIN store' \/ store'[B] # store[B]) =>
                 \E p \in Procs :
                   \/ (Continues(p) \/ Ends(p)) /\ call[p].req.checklist_id = B
                   \/ Answers(p) /\ resp'[p] # resp[p] /\ resp'[p].req.checklist_id = B
          /\ \A p \in Procs :
               (Continues(p) \/ Ends(p)) =>
                 \A B \in DOMAIN store \ {call[p].req.checklist_id} :
                   B \in DOMAIN store' /\ store'[B] = store[B]
     /\ (ncalls' = 2 /\ resp' # resp) =>
          \A p, q \in Procs :
            WroteTwoChecklists(p, q)' => (TookEffect(p)' /\ TookEffect(q)')]_vars

\* C19 witness: a toggle_item on checklist 1 and an update on checklist 2 ran
\* and both succeeded; both show, and each left the other's checklist alone
C19_Witness ==
  \E p, q \in Procs :
    /\ WroteTwoChecklists(p, q)
    /\ resp[p].req = [op |-> "toggle_checklist_item", checklist_id |-> 1,
                      section |-> "tasks", item_id |-> 1]
    /\ resp[q].req.op = "update_checklist" /\ resp[q].req.checklist_id = 2
    /\ resp[q].req.update_data.title = Some("renamed")
    /\ store[1].tasks[1].completed /\ store[1].title = "1970 Mustang"
    /\ store[2].title = "renamed" /\ store[2].tasks = TwoChecklists[2].tasks
====
